---------------------------- MODULE Spec2Model ----------------------------
(***************************************************************************)
(* Notes page client logic (static/notes-page.js): the cascading           *)
(* subject/number course filter, the "load more" pagination, the create    *)
(* modal and the inline edit forms; and the later version of the script,   *)
(* in which the server supplies the course catalog (COURSES_DICT) and the  *)
(* create modal and the edit forms have subject/number dropdowns.          *)
(*                                                                         *)
(* JavaScript strings are modelled as sequences of one-character strings,  *)
(* so that the regular expression match, string concatenation, parseInt    *)
(* and the lexicographic sort are computed and not assumed.  The empty     *)
(* string is << >>.                                                        *)
(***************************************************************************)
EXTENDS Integers, Sequences, FiniteSets, TLC

(***************************************************************************)
(* Bounds of the model.                                                    *)
(***************************************************************************)
MaxSubmits == 2      \* form submissions followed before the navigation ends the page
MaxLoads   == 2      \* loadMore invocations followed on one page
MaxCodes   == 3      \* codes in a flat list of classes

(***************************************************************************)
(* Characters and strings.                                                 *)
(***************************************************************************)
Alphabet ==
  << "0","1","2","3","4","5","6","7","8","9",
     "A","B","C","D","E","F","G","H","I","J","K","L","M",
     "N","O","P","Q","R","S","T","U","V","W","X","Y","Z",
     "a","b","c","d","e","f","g","h","i","j","k","l","m",
     "n","o","p","q","r","s","t","u","v","w","x","y","z" >>

\* position of a character in code-unit order
CharCode(c) == CHOOSE i \in 1..Len(Alphabet) : Alphabet[i] = c

IsDigit(c) == CharCode(c) \in 1..10
IsUpper(c) == CharCode(c) \in 11..36
DigitVal(c) == CharCode(c) - 1

Range(s) == { s[i] : i \in 1..Len(s) }

EmptyStr == << >>
All == << "A", "l", "l" >>

\* JavaScript truthiness of a string: non-empty
Truthy(str) == str # EmptyStr

\* length of the longest prefix of str made of upper-case letters
RECURSIVE UpperPrefixLen(_)
UpperPrefixLen(str) ==
  IF str = << >> \/ ~IsUpper(Head(str)) THEN 0
  ELSE 1 + UpperPrefixLen(Tail(str))

AllDigits(str) == \A i \in 1..Len(str) : IsDigit(str[i])

\* a slip: the pattern is given the flag i, so lower-case letters match too
Match_IgnoreCase(str) ==
  LET IsLetter(c) == CharCode(c) \in 11..62
      k == CHOOSE n \in 0..Len(str) :
             /\ \A i \in 1..n : IsLetter(str[i])
             /\ n = Len(str) \/ ~IsLetter(str[n + 1])
      rest == SubSeq(str, k + 1, Len(str))
  IN IF k >= 1 /\ Len(rest) >= 1 /\ AllDigits(rest)
     THEN [ok |-> TRUE, subject |-> SubSeq(str, 1, k), number |-> rest]
     ELSE [ok |-> FALSE, subject |-> EmptyStr, number |-> EmptyStr]

\* cls.match(/^([A-Z]+)(\d+)$/): ok is FALSE for null; otherwise the two groups
Match(str) ==
  LET k == UpperPrefixLen(str)
      rest == SubSeq(str, k + 1, Len(str))
  IN IF k >= 1 /\ Len(rest) >= 1 /\ AllDigits(rest)
     THEN [ok |-> TRUE, subject |-> SubSeq(str, 1, k), number |-> rest]
     ELSE [ok |-> FALSE, subject |-> EmptyStr, number |-> EmptyStr]

\* parseInt of a digit string (base 10)
RECURSIVE ParseInt(_)
ParseInt(str) ==
  IF str = << >> THEN 0
  ELSE 10 * ParseInt(SubSeq(str, 1, Len(str) - 1)) + DigitVal(str[Len(str)])

\* a < b in the default Array.prototype.sort order (code units, prefix first)
RECURSIVE StrLess(_, _)
StrLess(a, b) ==
  IF b = << >> THEN FALSE
  ELSE IF a = << >> THEN TRUE
  ELSE IF Head(a) # Head(b) THEN CharCode(Head(a)) < CharCode(Head(b))
  ELSE StrLess(Tail(a), Tail(b))


(***************************************************************************)
(* Course index: parseClasses.                                             *)
(***************************************************************************)
\* the codes of the list that match, in list order
RECURSIVE MatchedCodes(_)
MatchedCodes(classes) ==
  IF classes = << >> THEN << >>
  ELSE IF Match(Head(classes)).ok
       THEN << Head(classes) >> \o MatchedCodes(Tail(classes))
       ELSE MatchedCodes(Tail(classes))

\* classesBySubject[subject]: the numbers pushed for subject, in list order;
\* << >> stands for a missing key (the caller's "|| []")
RECURSIVE NumbersOf(_, _)
NumbersOf(classes, subject) ==
  IF classes = << >> THEN << >>
  ELSE LET m == Match(Head(classes))
       IN IF m.ok /\ m.subject = subject
          THEN << m.number >> \o NumbersOf(Tail(classes), subject)
          ELSE NumbersOf(Tail(classes), subject)

\* a slip: the order is reversed
MinStr_Greatest(S) == CHOOSE a \in S : \A b \in S : a = b \/ StrLess(b, a)

\* the least string of a non-empty set in sort() order
MinStr(S) == CHOOSE a \in S : \A b \in S : a = b \/ StrLess(a, b)

\* Array.from(set).sort()
RECURSIVE SortStrings(_)
SortStrings(S) ==
  IF S = {} THEN << >>
  ELSE LET a == MinStr(S) IN << a >> \o SortStrings(S \ {a})

ParseClasses(classes) ==
  LET matched == MatchedCodes(classes)
      subjects == { Match(matched[i]).subject : i \in 1..Len(matched) }
  IN [ subjects |-> SortStrings(subjects),
       classesBySubject |-> [ s \in subjects |-> NumbersOf(classes, s) ] ]

\* a slip: the comparator is left out, so sort() compares the numbers as
\* strings
RECURSIVE InsertByInt_Lexicographic(_, _)
InsertByInt_Lexicographic(sorted, x) ==
  IF sorted = << >> THEN << x >>
  ELSE IF StrLess(x, Head(sorted))
       THEN << x >> \o sorted
       ELSE << Head(sorted) >> \o InsertByInt_Lexicographic(Tail(sorted), x)

\* insert x into the sorted sequence after every element that does not
\* compare greater (the sort is stable)
RECURSIVE InsertByInt(_, _)
InsertByInt(sorted, x) ==
  IF sorted = << >> THEN << x >>
  ELSE IF ParseInt(Head(sorted)) - ParseInt(x) > 0
       THEN << x >> \o sorted
       ELSE << Head(sorted) >> \o InsertByInt(Tail(sorted), x)

\* numbers.sort((a, b) => parseInt(a) - parseInt(b))
RECURSIVE SortNumbers(_)
SortNumbers(numbers) ==
  IF numbers = << >> THEN << >>
  ELSE InsertByInt(SortNumbers(SubSeq(numbers, 1, Len(numbers) - 1)),
                   numbers[Len(numbers)])

(***************************************************************************)
(* The page's inputs: what the server renders into #page-data.             *)
(***************************************************************************)
CS9     == << "C", "S", "9" >>
CS10    == << "C", "S", "1", "0" >>
CS124   == << "C", "S", "1", "2", "4" >>
CS225   == << "C", "S", "2", "2", "5" >>
MATH241 == << "M", "A", "T", "H", "2", "4", "1" >>
MATH9   == << "M", "A", "T", "H", "9" >>
Lower50 == << "c", "s", "5", "0" >>          \* does not match the pattern
CS999   == << "C", "S", "9", "9", "9" >>     \* matches, number not in any list

Catalogs ==
  { << CS225, MATH241, CS124 >>,
    << CS124, CS9, Lower50, CS10, MATH9 >> }

Filters == { All, CS124, MATH241, CS9, CS999, Lower50 }

\* the codes a flat list is drawn from
Codes == { MATH241, CS124, CS9, CS10, Lower50 }

\* every flat list of at most MaxCodes codes, in any order and with repeats
ClassLists == UNION { [ 1..n -> Codes ] : n \in 0..MaxCodes }

(***************************************************************************)
(* State.                                                                  *)
(***************************************************************************)
VARIABLES
  CLASSES,          \* the global CLASSES
  subjectOptions,   \* #subject-select: the option values, in order
  subjectValue,     \* #subject-select .value
  numberOptions,    \* #number-select: the option values, in order
  numberValue,      \* #number-select .value
  hiddenValue,      \* #class-filter-hidden .value
  numberWidgets,    \* live Choices instances bound to #number-select
  submissions,      \* the values #course-filter-form was submitted with, in order
  currentPage,      \* the global currentPage
  initialPage,      \* the page number initializePage was given
  requests,         \* the fetches issued by loadMore, in order of invocation
  arrivals,         \* the indices into requests of the settled fetches, in order of arrival
  container,        \* #notes-container: its fragments, in document order
  loadMoreBtn,      \* #load-more: "absent", or its style.display ("" or "none")
  numberListeners,  \* change listeners registered on #number-select
  modalActive,      \* #note-modal has the class "active"
  bodyOverflow,     \* document.body.style.overflow
  createForm,       \* #create-note-form: the values of its editable fields
  editActive,       \* per note: #edit-form-<id> has the class "active"
  contentEditing,   \* per note: #note-content-<id> has the class "editing"
  COURSES_DICT,     \* the global COURSES_DICT: subject -> its array of numbers
  SUBJECTS,         \* the global SUBJECTS
  loadedIndex,      \* SUBJECTS and COURSES_DICT as initializePage left them
  createSubjectValue,   \* #create-subject-select .value
  createNumberOptions,  \* #create-number-select: the option values, in order
  createNumberValue,    \* #create-number-select .value
  createHidden,         \* #create-class-hidden .value
  editSubjectValue,     \* per note: .edit-subject-select .value
  editNumberOptions,    \* per note: #edit-number-<id>: the option values
  editNumberValue,      \* per note: #edit-number-<id> .value
  editHidden,           \* per note: #edit-class-hidden-<id> .value
  last              \* the handler that ran last, with what it saw on entry

filterVars == << CLASSES, subjectOptions, subjectValue, numberOptions,
                 numberValue, hiddenValue, numberWidgets, submissions,
                 numberListeners >>
pageVars   == << currentPage, initialPage, requests, arrivals, container,
                 loadMoreBtn >>
modalVars  == << modalActive, bodyOverflow, createForm, editActive,
                 contentEditing >>
dictVars   == << COURSES_DICT, SUBJECTS, loadedIndex, createSubjectValue,
                 createNumberOptions, createNumberValue, createHidden,
                 editSubjectValue, editNumberOptions, editNumberValue,
                 editHidden >>
vars       == << filterVars, pageVars, modalVars, dictVars, last >>

\* the notes rendered on the page, by id
NoteIds == {1, 2}

\* the editable fields of #create-note-form with their default values, and
\* the values a field can be given
FormDefaults == [ text |-> "", option |-> "first" ]
FieldValues  == { "", "first", "edited" }

(***************************************************************************)
(* Course filter: populateSubjects, updateNumberDropdown, applyClassFilter *)
(***************************************************************************)
\* the subject or number a filter value stands for ("" when it is empty,
\* "All" or does not match)
FilterSubject(currentFilter) ==
  IF Truthy(currentFilter) /\ currentFilter # All /\ Match(currentFilter).ok
  THEN Match(currentFilter).subject
  ELSE EmptyStr

\* a slip: the number of the filter is never read
FilterNumber_Ignored(preserveSelection, currentFilter) == EmptyStr

FilterNumber(preserveSelection, currentFilter) ==
  IF preserveSelection /\ Truthy(currentFilter) /\ currentFilter # All
     /\ Match(currentFilter).ok
  THEN Match(currentFilter).number
  ELSE EmptyStr

\* the value of a single-choice select whose options `selected` were marked
\* with value `wanted`: the marked option if there is one, else the first
SelectValue(options, wanted) ==
  IF \E i \in 2..Len(options) : options[i] = wanted THEN wanted
  ELSE options[1]

\* populateSubjects(currentFilter): the options and the value of #subject-select
PopulateSubjects(classes, currentFilter) ==
  LET options == << EmptyStr >> \o ParseClasses(classes).subjects
  IN [ options |-> options,
       value |-> SelectValue(options, FilterSubject(currentFilter)) ]

\* a slip: the numbers of every subject are listed, whatever the selection
NumbersFor_AnySubject(classes, selectedSubject) ==
  LET matched == MatchedCodes(classes)
  IN IF Truthy(selectedSubject)
     THEN SortNumbers([ i \in 1..Len(matched) |-> Match(matched[i]).number ])
     ELSE << >>

\* the numbers listed for the selected subject, sorted
NumbersFor(classes, selectedSubject) ==
  LET bySubject == ParseClasses(classes).classesBySubject
  IN IF Truthy(selectedSubject)
     THEN SortNumbers(IF selectedSubject \in DOMAIN bySubject
                      THEN bySubject[selectedSubject] ELSE << >>)
     ELSE << >>

\* updateNumberDropdown(preserveSelection, currentFilter): the options and the
\* value of #number-select
UpdateNumberDropdown(classes, selectedSubject, preserveSelection, currentFilter) ==
  LET options == << EmptyStr >> \o NumbersFor(classes, selectedSubject)
  IN [ options |-> options,
       value |-> SelectValue(options,
                             FilterNumber(preserveSelection, currentFilter)) ]

\* a slip in the combination rule: a subject alone is submitted as the subject
Combined_SubjectAlone(selectedSubject, selectedNumber) ==
  IF Truthy(selectedSubject) /\ Truthy(selectedNumber)
  THEN selectedSubject \o selectedNumber
  ELSE IF Truthy(selectedSubject) THEN selectedSubject
  ELSE All

\* applyClassFilter: the value written to the hidden field
Combined(selectedSubject, selectedNumber) ==
  IF Truthy(selectedSubject) /\ Truthy(selectedNumber)
  THEN selectedSubject \o selectedNumber
  ELSE IF Truthy(selectedSubject) THEN All
  ELSE All

\* a slip: the number dropdown is rebuilt keeping the current filter's number
ResetNumberDropdown_Preserve(classes, subject) ==
  UpdateNumberDropdown(classes, subject, TRUE, hiddenValue)

\* handleSubjectChange: updateNumberDropdown(false, null)
ResetNumberDropdown(classes, subject) ==
  UpdateNumberDropdown(classes, subject, FALSE, EmptyStr)

\* a slip: every subject change submits
SubjectChangeSubmits_Always(subject) == TRUE

\* handleSubjectChange: whether the form is submitted for the new subject
SubjectChangeSubmits(subject) == ~Truthy(subject)

\* a slip: the hidden field is emptied instead of set to 'All'
SubjectClearedValue_Empty == EmptyStr

\* handleSubjectChange: the hidden value it submits
SubjectClearedValue == All

\* handleNumberChange: whether the "All Numbers with a subject" branch is taken
NumberClearedBranch(subject, number) == ~Truthy(number) /\ Truthy(subject)

\* a slip: "all classes of the subject" is submitted as the subject
NumberClearedValue_Subject(subject) == subject

\* handleNumberChange: the hidden value that branch submits
NumberClearedValue(subject) == All

\* a slip: the old instance is not destroyed before the new one is made
RebuildNumberChoice_NoDestroy(widgets) == widgets + 1

\* numberChoice.destroy() followed by new Choices(numberSelect, ...)
RebuildNumberChoice(widgets) == (widgets - 1) + 1

\* the change event of #number-select runs every listener registered on it;
\* each run of handleNumberChange submits the form with the value it wrote
HandlerRuns(listeners, value) == [ i \in 1..listeners |-> value ]

\* what a handler saw on entry; req is the fetch it settles (0: none)
\* (for toggleEdit req is the note id); arg is the key pressed or the element
\* clicked, for the handlers that read one
EntryArg(op, req, arg) ==
  [ op |-> op, req |-> req, arg |-> arg,
    prevSubject |-> subjectValue, prevNumber |-> numberValue,
    prevHidden |-> hiddenValue, prevSubmits |-> Len(submissions),
    prevPage |-> currentPage, prevContainer |-> container,
    prevBtn |-> loadMoreBtn,
    prevModal |-> modalActive, prevOverflow |-> bodyOverflow,
    prevForm |-> createForm, prevEdit |-> editActive,
    prevEditing |-> contentEditing ]

Entry(op, req) == EntryArg(op, req, "")

\* the page is live until the navigation of a submission replaces it
PageLive == Len(submissions) < MaxSubmits

\* applyClassFilter(), called on its own or from handleNumberChange
ApplyClassFilterEffect ==
  /\ hiddenValue' = Combined(subjectValue', numberValue')
  /\ submissions' = Append(submissions, hiddenValue')

\* the user picks another subject; the change event runs handleSubjectChange
HandleSubjectChange(subject) ==
  /\ PageLive
  /\ subject \in Range(subjectOptions)
  /\ subject # subjectValue
  /\ subjectValue' = subject
  /\ LET dd == ResetNumberDropdown(CLASSES, subject)
     IN /\ numberOptions' = dd.options
        /\ numberValue' = dd.value
  /\ numberWidgets' = RebuildNumberChoice(numberWidgets)
  /\ IF SubjectChangeSubmits(subject)
     THEN /\ hiddenValue' = SubjectClearedValue
          /\ submissions' = Append(submissions, hiddenValue')
     ELSE UNCHANGED << hiddenValue, submissions >>
  /\ last' = Entry("handleSubjectChange", 0)
  /\ UNCHANGED << CLASSES, subjectOptions, numberListeners, pageVars, modalVars, dictVars >>

\* the user picks another number; the change event runs handleNumberChange
HandleNumberChange(number) ==
  /\ PageLive
  /\ number \in Range(numberOptions)
  /\ number # numberValue
  /\ numberValue' = number
  /\ subjectValue' = subjectValue
  /\ hiddenValue' = IF NumberClearedBranch(subjectValue, number)
                    THEN NumberClearedValue(subjectValue)
                    ELSE Combined(subjectValue', numberValue')
  /\ submissions' = submissions \o HandlerRuns(numberListeners, hiddenValue')
  /\ last' = Entry("handleNumberChange", 0)
  /\ UNCHANGED << CLASSES, subjectOptions, numberOptions, numberWidgets,
                  numberListeners, pageVars, modalVars, dictVars >>

\* applyClassFilter() invoked directly (it is a global function of the page)
ApplyClassFilter ==
  /\ PageLive
  /\ UNCHANGED << subjectValue, numberValue >>
  /\ ApplyClassFilterEffect
  /\ last' = Entry("applyClassFilter", 0)
  /\ UNCHANGED << CLASSES, subjectOptions, numberOptions, numberWidgets,
                  numberListeners, pageVars, modalVars, dictVars >>

(***************************************************************************)
(* Pagination: loadMore.                                                   *)
(***************************************************************************)
\* What a fetch can settle with:
\*   networkError  fetch(url) rejects
\*   notOk         a response whose ok is false
\*   notJson       an ok response whose body res.json() rejects
\*   jsonNull      an ok response whose body is the JSON value null
\*   json          an ok response whose body is any other JSON value; html
\*                 and has_more say whether it has the property ("missing")
Responses ==
  [ kind : {"networkError", "notOk", "notJson", "jsonNull"},
    html : {"missing"}, has_more : {"missing"} ]
  \cup
  [ kind : {"json"}, html : {"fragment", "missing"},
    has_more : {"true", "false", "missing"} ]

\* the markup the server renders for a page
Fragment(page) == << "notes of page", page >>
\* what the page held when it was rendered
InitialContent == << << "notes rendered by the server" >> >>
\* String(undefined), which insertAdjacentHTML is given for a missing html
UndefinedText == << "undefined" >>

\* a slip: the "if (!res.ok) throw" line is left out
ReachesAppend_NoOkCheck(resp) == resp.kind \in {"json", "notOk"}

\* the try block gets as far as insertAdjacentHTML without throwing:
\* fetch resolved, res.ok, res.json() resolved, and data.html can be read
ReachesAppend(resp) == resp.kind = "json"

\* data.html as text
HtmlText(resp, page) ==
  IF resp.html = "fragment" THEN Fragment(page) ELSE UndefinedText

\* a slip: the fragment replaces the content (container.innerHTML = text)
InsertAdjacentHTML_Replace(content, text) == << text >>

\* container.insertAdjacentHTML('beforeend', text)
InsertAdjacentHTML(content, text) == Append(content, text)

\* a slip: the test is inverted (data.has_more)
NoMore_Inverted(resp) == resp.has_more = "true"

\* !data.has_more
NoMore(resp) == resp.has_more # "true"

\* if (btn) btn.style.display = 'none'
HideButton(btn) == IF btn = "absent" THEN btn ELSE "none"

\* currentPage += 1
NextPage(page) == page + 1

\* the fetches that have not settled yet
Outstanding ==
  { i \in 1..Len(requests) : \A k \in 1..Len(arrivals) : arrivals[k].req # i }

\* a slip: loadMore returns at once while a fetch is in flight
LoadMoreAccepted_Guarded(inFlight) == inFlight = {}

\* loadMore tests nothing before "currentPage += 1"
LoadMoreAccepted(inFlight) == TRUE

\* loadMore(), up to the first await: the page counter and the request
LoadMore ==
  /\ PageLive
  /\ LoadMoreAccepted(Outstanding)
  /\ Len(requests) < MaxLoads
  /\ currentPage' = NextPage(currentPage)
  /\ requests' = Append(requests, [ page |-> currentPage', filter |-> hiddenValue ])
  /\ last' = Entry("loadMore", Len(requests'))
  /\ UNCHANGED << filterVars, modalVars, dictVars, initialPage, arrivals, container,
                  loadMoreBtn >>

\* a slip: the catch block takes the increment back
PageAfterSettle_Rollback(page, resp) ==
  IF ReachesAppend(resp) THEN page ELSE page - 1

\* neither the rest of the try block nor the catch block writes currentPage
PageAfterSettle(page, resp) == page

\* loadMore(), from the await on: fetch i settles with resp
Settle(i, resp) ==
  /\ PageLive
  /\ i \in Outstanding
  /\ arrivals' = Append(arrivals, [ req |-> i, resp |-> resp ])
  /\ IF ReachesAppend(resp)
     THEN /\ container' = InsertAdjacentHTML(container, HtmlText(resp, requests[i].page))
          /\ loadMoreBtn' = IF NoMore(resp) THEN HideButton(loadMoreBtn)
                            ELSE loadMoreBtn
     ELSE UNCHANGED << container, loadMoreBtn >>    \* catch: console.error
  /\ currentPage' = PageAfterSettle(currentPage, resp)
  /\ last' = Entry("settle", i)
  /\ UNCHANGED << filterVars, modalVars, dictVars, initialPage, requests >>

(***************************************************************************)
(* Create modal and inline edit forms: openModal, closeModal, toggleEdit   *)
(* and the two listeners initializePage registers for the modal.           *)
(***************************************************************************)
\* a slip: the form is left as it is
ResetForm_Forgotten(form) == form

\* form.reset(): every field back to its default value
ResetForm(form) == FormDefaults

\* a slip: any click inside the overlay closes it
BackdropHit_AnyTarget(target) == TRUE

\* the click listener: e.target === modal
BackdropHit(target) == target = "modal"

\* a slip: Escape closes whether or not the overlay is active
EscapeCloses_Always(key, active) == key = "Escape"

\* the keydown listener: e.key === 'Escape' && modal.classList.contains('active')
EscapeCloses(key, active) == key = "Escape" /\ active

\* a slip: the classes of every note are toggled
ToggleTargets_All(noteId) == NoteIds

\* toggleEdit: the notes whose elements getElementById returns
ToggleTargets(noteId) == { noteId }

\* what can be clicked inside #note-modal: the overlay itself or its content box
ClickTargets == { "modal", "content" }
Keys == { "Escape", "Enter" }

\* a slip: the scroll lock is not released
CloseModalEffect_KeepsScrollLock ==
  /\ modalActive' = FALSE
  /\ bodyOverflow' = bodyOverflow
  /\ createForm' = ResetForm(createForm)

\* closeModal(): classList.remove('active'), overflow = '', form.reset()
CloseModalEffect ==
  /\ modalActive' = FALSE
  /\ bodyOverflow' = ""
  /\ createForm' = ResetForm(createForm)

OpenModal ==
  /\ modalActive' = TRUE
  /\ bodyOverflow' = "hidden"
  /\ last' = Entry("openModal", 0)
  /\ UNCHANGED << filterVars, pageVars, dictVars, createForm, editActive, contentEditing >>

CloseModal ==
  /\ CloseModalEffect
  /\ last' = Entry("closeModal", 0)
  /\ UNCHANGED << filterVars, pageVars, dictVars, editActive, contentEditing >>

\* a click that reaches the listener on #note-modal
ModalClick(target) ==
  /\ IF BackdropHit(target)
     THEN CloseModalEffect
     ELSE UNCHANGED << modalActive, bodyOverflow, createForm >>
  /\ last' = EntryArg("click", 0, target)
  /\ UNCHANGED << filterVars, pageVars, dictVars, editActive, contentEditing >>

\* a key press that reaches the listener on document
KeyDown(key) ==
  /\ IF EscapeCloses(key, modalActive)
     THEN CloseModalEffect
     ELSE UNCHANGED << modalActive, bodyOverflow, createForm >>
  /\ last' = EntryArg("keydown", 0, key)
  /\ UNCHANGED << filterVars, pageVars, dictVars, editActive, contentEditing >>

\* toggleEdit(noteId): classList.toggle on the note's edit form and content
ToggleEdit(noteId) ==
  /\ editActive' = [ n \in NoteIds |->
        IF n \in ToggleTargets(noteId) THEN ~editActive[n] ELSE editActive[n] ]
  /\ contentEditing' = [ n \in NoteIds |->
        IF n \in ToggleTargets(noteId) THEN ~contentEditing[n]
        ELSE contentEditing[n] ]
  /\ last' = Entry("toggleEdit", noteId)
  /\ UNCHANGED << filterVars, pageVars, dictVars, modalActive, bodyOverflow, createForm >>

\* the user edits a field of the create form
EditField(field, value) ==
  /\ value # createForm[field]
  /\ createForm' = [ createForm EXCEPT ![field] = value ]
  /\ last' = EntryArg("edit", 0, field)
  /\ UNCHANGED << filterVars, pageVars, dictVars, modalActive, bodyOverflow, editActive,
                  contentEditing >>

(***************************************************************************)
(* The page without the globals COURSES_DICT and SUBJECTS and without the  *)
(* dropdowns of the create modal and of the edit forms.                    *)
(***************************************************************************)
NoCatalog ==
  /\ COURSES_DICT = << >>
  /\ SUBJECTS = << >>
  /\ loadedIndex = [ subjects |-> << >>, dict |-> << >> ]
  /\ createSubjectValue = EmptyStr
  /\ createNumberOptions = << EmptyStr >>
  /\ createNumberValue = EmptyStr
  /\ createHidden = EmptyStr
  /\ editSubjectValue = << >>
  /\ editNumberOptions = << >>
  /\ editNumberValue = << >>
  /\ editHidden = << >>

(***************************************************************************)
(* The page with a catalog supplied by the server: parseClasses returns    *)
(* the globals SUBJECTS and COURSES_DICT themselves, and every sort of a   *)
(* subject's numbers sorts the array held by COURSES_DICT.                 *)
(***************************************************************************)
\* the catalogs the server supplies, and the list of subjects given with them
CS == << "C", "S" >>
MATH == << "M", "A", "T", "H" >>
CourseDicts ==
  { ( CS :> << << "1", "2", "4" >>, << "9" >> >> ) @@ ( MATH :> << << "2", "4", "1" >> >> ),
    ( CS :> << << "9" >>, << "1", "2", "4" >> >> ) @@ ( MATH :> << << "2", "4", "1" >> >> ) }
SubjectList == << CS, MATH >>

\* the notes that carry an edit form with dropdowns, and the class code the
\* template rendered into each one's hidden field
EditNotes == {1}
NoteClass == [ n \in EditNotes |-> MATH241 ]

\* COURSES_DICT[subject] || []
DictNumbers(dict, subject) ==
  IF subject \in DOMAIN dict THEN dict[subject] ELSE << >>

\* numbers.sort(...) on the array COURSES_DICT[subject]: the array is sorted
\* where it is; the array made by "|| []" belongs to nobody
SortInPlace(dict, subject) ==
  IF subject \in DOMAIN dict
  THEN [ dict EXCEPT ![subject] = SortNumbers(@) ]
  ELSE dict

\* populateSubjects(currentFilter), with subjects = SUBJECTS
PopulateSubjectsDict(subjects, currentFilter) ==
  LET options == << EmptyStr >> \o subjects
  IN [ options |-> options,
       value |-> SelectValue(options, FilterSubject(currentFilter)) ]

\* updateNumberDropdown(preserveSelection, currentFilter), with
\* classesBySubject = COURSES_DICT: the options and the value of
\* #number-select, and COURSES_DICT afterwards
UpdateNumberDropdownDict(dict, selectedSubject, preserveSelection, currentFilter) ==
  LET sorted  == IF Truthy(selectedSubject)
                 THEN SortInPlace(dict, selectedSubject) ELSE dict
      options == << EmptyStr >> \o
                 (IF Truthy(selectedSubject)
                  THEN DictNumbers(sorted, selectedSubject) ELSE << >>)
  IN [ options |-> options,
       value |-> SelectValue(options,
                             FilterNumber(preserveSelection, currentFilter)),
       dict |-> sorted ]

\* handleSubjectChange on the page with a catalog
HandleSubjectChangeDict(subject) ==
  /\ PageLive
  /\ subject \in Range(subjectOptions)
  /\ subject # subjectValue
  /\ subjectValue' = subject
  /\ LET dd == UpdateNumberDropdownDict(COURSES_DICT, subject, FALSE, EmptyStr)
     IN /\ numberOptions' = dd.options
        /\ numberValue' = dd.value
        /\ COURSES_DICT' = dd.dict
  /\ numberWidgets' = RebuildNumberChoice(numberWidgets)
  /\ IF SubjectChangeSubmits(subject)
     THEN /\ hiddenValue' = SubjectClearedValue
          /\ submissions' = Append(submissions, hiddenValue')
     ELSE UNCHANGED << hiddenValue, submissions >>
  /\ last' = Entry("handleSubjectChange", 0)
  /\ UNCHANGED << CLASSES, subjectOptions, numberListeners, pageVars, modalVars,
                  SUBJECTS, loadedIndex, createSubjectValue,
                  createNumberOptions, createNumberValue, createHidden,
                  editSubjectValue, editNumberOptions, editNumberValue,
                  editHidden >>

\* subject && number ? subject + number : fallback
ClassCode(subject, number, fallback) ==
  IF Truthy(subject) /\ Truthy(number) THEN subject \o number ELSE fallback

\* change listener of #create-subject-select
CreateSubjectChange(subject) ==
  /\ PageLive
  /\ subject \in {EmptyStr} \cup Range(SUBJECTS)
  /\ subject # createSubjectValue
  /\ createSubjectValue' = subject
  /\ COURSES_DICT' = SortInPlace(COURSES_DICT, subject)
  /\ createNumberOptions' = << EmptyStr >> \o DictNumbers(COURSES_DICT', subject)
  /\ createNumberValue' = EmptyStr
  /\ last' = Entry("createSubjectChange", 0)
  /\ UNCHANGED << filterVars, pageVars, modalVars, SUBJECTS, loadedIndex,
                  createHidden, editSubjectValue, editNumberOptions,
                  editNumberValue, editHidden >>

\* change listener of #create-number-select
CreateNumberChange(number) ==
  /\ PageLive
  /\ number \in Range(createNumberOptions)
  /\ number # createNumberValue
  /\ createNumberValue' = number
  /\ createHidden' = ClassCode(createSubjectValue, number, EmptyStr)
  /\ last' = Entry("createNumberChange", 0)
  /\ UNCHANGED << filterVars, pageVars, modalVars, COURSES_DICT, SUBJECTS,
                  loadedIndex, createSubjectValue, createNumberOptions,
                  editSubjectValue, editNumberOptions, editNumberValue,
                  editHidden >>

\* change listener of the .edit-subject-select of note noteId
EditSubjectChange(noteId, subject) ==
  /\ PageLive
  /\ subject \in {EmptyStr} \cup Range(SUBJECTS)
  /\ subject # editSubjectValue[noteId]
  /\ editSubjectValue' = [ editSubjectValue EXCEPT ![noteId] = subject ]
  /\ COURSES_DICT' = SortInPlace(COURSES_DICT, subject)
  /\ editNumberOptions' = [ editNumberOptions EXCEPT ![noteId] =
                              << EmptyStr >> \o DictNumbers(COURSES_DICT', subject) ]
  /\ editNumberValue' = [ editNumberValue EXCEPT ![noteId] = EmptyStr ]
  /\ last' = Entry("editSubjectChange", noteId)
  /\ UNCHANGED << filterVars, pageVars, modalVars, SUBJECTS, loadedIndex,
                  createSubjectValue, createNumberOptions, createNumberValue,
                  createHidden, editHidden >>

\* change listener of #edit-number-<noteId>
EditNumberChange(noteId, number) ==
  /\ PageLive
  /\ number \in Range(editNumberOptions[noteId])
  /\ number # editNumberValue[noteId]
  /\ editNumberValue' = [ editNumberValue EXCEPT ![noteId] = number ]
  /\ editHidden' = [ editHidden EXCEPT ![noteId] =
                       ClassCode(editSubjectValue[noteId], number, NoteClass[noteId]) ]
  /\ last' = Entry("editNumberChange", noteId)
  /\ UNCHANGED << filterVars, pageVars, modalVars, COURSES_DICT, SUBJECTS,
                  loadedIndex, createSubjectValue, createNumberOptions,
                  createNumberValue, createHidden, editSubjectValue,
                  editNumberOptions >>

(***************************************************************************)
(* initializePage and the specifications.                                  *)
(***************************************************************************)
InitialPages == {1, 2}

\* initializePage(page, classes, selectedFilter) on a page whose hidden field
\* the server rendered with the active filter
InitializePage(page, classes, selectedFilter, btn) ==
  LET subj == PopulateSubjects(classes, selectedFilter)
      num  == UpdateNumberDropdown(classes, subj.value, TRUE, selectedFilter)
  IN /\ currentPage = page
     /\ initialPage = page
     /\ CLASSES = classes
     /\ subjectOptions = subj.options
     /\ subjectValue = subj.value
     /\ numberOptions = num.options
     /\ numberValue = num.value
     /\ hiddenValue = selectedFilter
     /\ numberWidgets = 1
     /\ submissions = << >>
     /\ requests = << >>
     /\ arrivals = << >>
     /\ container = InitialContent
     /\ loadMoreBtn = btn
     /\ numberListeners = 1
     /\ modalActive = FALSE
     /\ bodyOverflow = ""
     /\ createForm = FormDefaults
     /\ editActive = [ n \in NoteIds |-> FALSE ]
     /\ contentEditing = [ n \in NoteIds |-> FALSE ]
     /\ NoCatalog
     /\ last = [ op |-> "initializePage", req |-> 0, arg |-> "",
                 prevSubject |-> EmptyStr, prevNumber |-> EmptyStr,
                 prevHidden |-> selectedFilter, prevSubmits |-> 0,
                 prevPage |-> page, prevContainer |-> InitialContent,
                 prevBtn |-> btn,
                 prevModal |-> FALSE, prevOverflow |-> "",
                 prevForm |-> FormDefaults,
                 prevEdit |-> [ n \in NoteIds |-> FALSE ],
                 prevEditing |-> [ n \in NoteIds |-> FALSE ] ]

\* initializeEditModalDropdowns: COURSES_DICT after the loop has sorted the
\* numbers of the subject of every note whose class code matches
EditDropdownsSorted(dict) ==
  [ s \in DOMAIN dict |->
      IF \E n \in EditNotes : Match(NoteClass[n]).ok /\ Match(NoteClass[n]).subject = s
      THEN SortNumbers(dict[s]) ELSE dict[s] ]

\* initializePage(page, classes, coursesDict, subjects, selectedFilter) of the
\* page with a catalog; the selects of the create modal and of the edit forms
\* start on their first option
InitializePageDict(page, coursesDict, subjects, selectedFilter) ==
  LET subj == PopulateSubjectsDict(subjects, selectedFilter)
      num  == UpdateNumberDropdownDict(coursesDict, subj.value, TRUE, selectedFilter)
      dict == EditDropdownsSorted(num.dict)
      m(n) == Match(NoteClass[n])
      editNumbers(n) ==
        << EmptyStr >> \o (IF m(n).ok THEN DictNumbers(dict, m(n).subject) ELSE << >>)
  IN /\ currentPage = page
     /\ initialPage = page
     /\ CLASSES = << >>
     /\ SUBJECTS = subjects
     /\ COURSES_DICT = dict
     /\ loadedIndex = [ subjects |-> subjects, dict |-> dict ]
     /\ subjectOptions = subj.options
     /\ subjectValue = subj.value
     /\ numberOptions = num.options
     /\ numberValue = num.value
     /\ hiddenValue = selectedFilter
     /\ numberWidgets = 1
     /\ numberListeners = 1
     /\ submissions = << >>
     /\ requests = << >>
     /\ arrivals = << >>
     /\ container = InitialContent
     /\ loadMoreBtn = ""
     /\ modalActive = FALSE
     /\ bodyOverflow = ""
     /\ createForm = FormDefaults
     /\ editActive = [ n \in NoteIds |-> FALSE ]
     /\ contentEditing = [ n \in NoteIds |-> FALSE ]
     /\ createSubjectValue = EmptyStr
     /\ createNumberOptions = << EmptyStr >>
     /\ createNumberValue = EmptyStr
     /\ createHidden = EmptyStr
     /\ editSubjectValue = [ n \in EditNotes |->
          SelectValue(<< EmptyStr >> \o subjects, m(n).subject) ]
     /\ editNumberOptions = [ n \in EditNotes |-> editNumbers(n) ]
     /\ editNumberValue = [ n \in EditNotes |->
          SelectValue(editNumbers(n), m(n).number) ]
     /\ editHidden = NoteClass
     /\ last = [ op |-> "initializePage", req |-> 0, arg |-> "",
                 prevSubject |-> EmptyStr, prevNumber |-> EmptyStr,
                 prevHidden |-> selectedFilter, prevSubmits |-> 0,
                 prevPage |-> page, prevContainer |-> InitialContent,
                 prevBtn |-> "",
                 prevModal |-> FALSE, prevOverflow |-> "",
                 prevForm |-> FormDefaults,
                 prevEdit |-> [ n \in NoteIds |-> FALSE ],
                 prevEditing |-> [ n \in NoteIds |-> FALSE ] ]

\* the first page of a listing with a catalog, unfiltered or filtered by CS124
InitDict ==
  \E coursesDict \in CourseDicts, selectedFilter \in { All, CS124 } :
    InitializePageDict(1, coursesDict, SubjectList, selectedFilter)

\* the first page of a listing, for any catalog and any filter value
Init ==
  \E classes \in Catalogs, selectedFilter \in Filters :
    InitializePage(1, classes, selectedFilter, "")

\* the page as the server renders it for a filter that is "All" or a course
\* of the catalog it lists
InitFilterListed ==
  \E classes \in Catalogs :
    \E selectedFilter \in {All} \cup Range(MatchedCodes(classes)) :
      InitializePage(1, classes, selectedFilter, "")

\* an unfiltered listing, at any page, with or without a "load more" control
InitPagination ==
  \E page \in InitialPages, btn \in {"absent", ""} :
    InitializePage(page, << CS225, MATH241, CS124 >>, All, btn)

\* an unfiltered listing of any flat list of codes
InitIndex ==
  \E classes \in ClassLists : InitializePage(1, classes, All, "")

\* the page with its modal closed and no edit form open
InitModal == InitializePage(1, << CS225, MATH241, CS124 >>, All, "")

NextFilter ==
  \/ \E subject \in Range(subjectOptions) : HandleSubjectChange(subject)
  \/ \E number \in Range(numberOptions) : HandleNumberChange(number)
  \/ ApplyClassFilter

NextDict ==
  \/ \E subject \in Range(subjectOptions) : HandleSubjectChangeDict(subject)
  \/ \E number \in Range(numberOptions) : HandleNumberChange(number)
  \/ ApplyClassFilter
  \/ \E subject \in {EmptyStr} \cup Range(SUBJECTS) : CreateSubjectChange(subject)
  \/ \E number \in Range(createNumberOptions) : CreateNumberChange(number)
  \/ \E noteId \in EditNotes, subject \in {EmptyStr} \cup Range(SUBJECTS) :
        EditSubjectChange(noteId, subject)
  \/ \E noteId \in EditNotes :
        \E number \in Range(editNumberOptions[noteId]) :
          EditNumberChange(noteId, number)

\* the handler that reads the course index after initialization
NextIndex ==
  \E subject \in Range(subjectOptions) : HandleSubjectChange(subject)

NextPagination ==
  \/ LoadMore
  \/ \E i \in 1..MaxLoads, resp \in Responses : Settle(i, resp)

NextModal ==
  \/ OpenModal
  \/ CloseModal
  \/ \E target \in ClickTargets : ModalClick(target)
  \/ \E key \in Keys : KeyDown(key)
  \/ \E noteId \in NoteIds : ToggleEdit(noteId)
  \/ \E field \in DOMAIN FormDefaults, value \in FieldValues : EditField(field, value)

\* the three groups of handlers share no variable but `last`; each group is
\* checked under its own specification
Next == NextFilter \/ NextPagination \/ NextModal

Spec           == Init /\ [][Next]_vars
SpecFilter     == Init /\ [][NextFilter]_vars
SpecFilterListed == InitFilterListed /\ [][NextFilter]_vars
SpecDict       == InitDict /\ [][NextDict]_vars
SpecIndex      == InitIndex /\ [][NextIndex]_vars
SpecPagination == InitPagination /\ [][NextPagination]_vars
SpecModal      == InitModal /\ [][NextModal]_vars

(***************************************************************************)
(* Properties of the course filter, checked under SpecFilter.              *)
(***************************************************************************)
\* the handler that ran last submitted the form
Submitted == Len(submissions) = last.prevSubmits + 1
NotSubmitted == Len(submissions) = last.prevSubmits
LastSubmission == submissions[Len(submissions)]

\* applyClassFilter ran in the last step: called directly, or by
\* handleNumberChange outside its "All Numbers with a subject" branch
ApplyFilterRan ==
  \/ last.op = "applyClassFilter"
  \/ /\ last.op = "handleNumberChange"
     /\ ~(numberValue = EmptyStr /\ subjectValue # EmptyStr)

\* C1: whenever applyClassFilter runs it submits the form, once, with the
\* hidden field set to subject+number when both a subject and a number are
\* selected and to "All" in every other case.
C1_ApplyFilterCombines ==
  ApplyFilterRan =>
    /\ Submitted
    /\ LastSubmission = hiddenValue
    /\ (subjectValue # EmptyStr /\ numberValue # EmptyStr
          => hiddenValue = subjectValue \o numberValue)
    /\ (subjectValue = EmptyStr \/ numberValue = EmptyStr
          => hiddenValue = All)

\* C1 witness: applyClassFilter ran with a subject and a number selected and
\* submitted their concatenation.
C1_Witness ==
  /\ ApplyFilterRan
  /\ subjectValue = << "C", "S" >>
  /\ numberValue = << "1", "2", "4" >>
  /\ LastSubmission = CS124

\* the rule of FilterState: the hidden field against the two selections
FilterStateRule ==
  hiddenValue = IF subjectValue = EmptyStr \/ numberValue = EmptyStr
                THEN All
                ELSE subjectValue \o numberValue

\* C2 as stated: the FilterState rule holds in every reachable state.
\* (Checked under SpecFilterListed, where every page starts with the rule
\* true: it is the handlers that break it.)
C2_FilterStateAlways == FilterStateRule

\* C2 amended: the FilterState rule holds in every state reached by a handler
\* run that submitted the form, and the value submitted is the hidden field;
\* a handler run that does not submit leaves the hidden field as it was.
C2_FilterStateAtSubmission ==
  /\ (last.op # "initializePage" /\ Submitted
        => FilterStateRule /\ LastSubmission = hiddenValue)
  /\ (last.op # "initializePage" /\ NotSubmitted
        => hiddenValue = last.prevHidden)

\* C2 witness: a subject change that did not submit left a hidden field that
\* no longer matches the selection (subject chosen, number reset).
C2_Witness ==
  /\ last.op = "handleSubjectChange"
  /\ NotSubmitted
  /\ subjectValue # EmptyStr
  /\ numberValue = EmptyStr
  /\ hiddenValue = CS124

\* C3: handleSubjectChange submits the form exactly when the new subject is
\* the empty "All Subjects" value, and then with "All"; for a non-empty
\* subject nothing is submitted and the hidden field is left as it was.
C3_SubjectChangeSubmitsIffAll ==
  last.op = "handleSubjectChange" =>
    /\ (Submitted <=> subjectValue = EmptyStr)
    /\ (subjectValue = EmptyStr =>
          hiddenValue = All /\ LastSubmission = All)
    /\ (subjectValue # EmptyStr =>
          NotSubmitted /\ hiddenValue = last.prevHidden)

\* C3 witness: the subject was changed from a subject to "All Subjects" and
\* the form was submitted with "All".
C3_Witness ==
  /\ last.op = "handleSubjectChange"
  /\ last.prevSubject # EmptyStr
  /\ subjectValue = EmptyStr
  /\ Submitted
  /\ LastSubmission = All

\* C4: right after handleSubjectChange the number dropdown has its
\* "All Numbers" entry (the empty value, first option) selected.
C4_SubjectChangeResetsNumber ==
  last.op = "handleSubjectChange" =>
    /\ numberValue = EmptyStr
    /\ numberOptions[1] = EmptyStr

\* C4 witness: a number was selected and is listed for the new subject too,
\* the page's filter is a course code, and the number was reset all the same.
C4_Witness ==
  /\ last.op = "handleSubjectChange"
  /\ last.prevNumber = << "9" >>
  /\ last.prevNumber \in Range(numberOptions)
  /\ hiddenValue = CS9
  /\ numberValue = EmptyStr

\* C5: every handleNumberChange submits the form exactly once: with "All"
\* when no number is selected but a subject is, otherwise with subject+number.
C5_NumberChangeSubmitsOnce ==
  last.op = "handleNumberChange" =>
    /\ Submitted
    /\ LastSubmission = hiddenValue
    /\ hiddenValue = IF numberValue = EmptyStr /\ subjectValue # EmptyStr
                     THEN All
                     ELSE subjectValue \o numberValue

\* C5 witness: the number was changed back to "All Numbers" under a subject
\* and the form was submitted with "All".
C5_Witness ==
  /\ last.op = "handleNumberChange"
  /\ last.prevNumber # EmptyStr
  /\ numberValue = EmptyStr
  /\ subjectValue # EmptyStr
  /\ Submitted
  /\ LastSubmission = All

(***************************************************************************)
(* Properties of the pagination, checked under SpecPagination.             *)
(***************************************************************************)
LastArrival == arrivals[Len(arrivals)]

\* a fetch that failed: network error or a status that is not OK
Failed(resp) == resp.kind \in {"networkError", "notOk"}

\* an OK response whose body is { html: fragment, has_more: boolean }
WellFormed(resp) ==
  resp.kind = "json" /\ resp.html = "fragment" /\ resp.has_more # "missing"

\* an OK response whose body is not of that shape
Malformed(resp) == ~Failed(resp) /\ ~WellFormed(resp)

SuccessfulFetches ==
  { k \in 1..Len(arrivals) : WellFormed(arrivals[k].resp) }

\* C6: once every fetch has settled, currentPage is the initial page plus the
\* number of successful fetches.
C6_PagePerSuccessfulFetch ==
  Outstanding = {} =>
    currentPage = initialPage + Cardinality(SuccessfulFetches)

\* C7: when a fetch fails (network error or non-OK status) the page counter
\* keeps the increment of its invocation, the results container and the
\* "load more" control are left as they were, and every later loadMore
\* requests a page after the failed one, never the failed page again.
C7_FailureKeepsIncrement ==
  /\ currentPage = initialPage + Len(requests)
  /\ (last.op = "settle" /\ Failed(LastArrival.resp) =>
        /\ currentPage = last.prevPage
        /\ currentPage >= requests[last.req].page
        /\ container = last.prevContainer
        /\ loadMoreBtn = last.prevBtn)
  /\ \A k \in 1..Len(arrivals) :
       Failed(arrivals[k].resp) =>
         \A j \in 1..Len(requests) :
           j > arrivals[k].req =>
             requests[j].page = requests[arrivals[k].req].page + (j - arrivals[k].req)

\* C7 witness: the first fetch failed with nothing appended, and the next
\* loadMore asked for the page after the failed one.
C7_Witness ==
  /\ Len(arrivals) >= 1
  /\ arrivals[1].req = 1
  /\ Failed(arrivals[1].resp)
  /\ last.op = "loadMore"
  /\ last.req = 2
  /\ container = InitialContent
  /\ requests[2].page = requests[1].page + 1

\* C8: an OK response whose body is not { html, has_more } is handled like a
\* failed fetch: nothing is appended and the control's visibility is unchanged.
C8_MalformedLikeFailure ==
  last.op = "settle" /\ Malformed(LastArrival.resp) =>
    /\ container = last.prevContainer
    /\ loadMoreBtn = last.prevBtn

\* the text loadMore appended for the k-th arrival: the fragment of the
\* requested page, or the text "undefined" when the body has no html
AppendedText(k) ==
  IF arrivals[k].resp.html = "fragment"
  THEN Fragment(requests[arrivals[k].req].page)
  ELSE << "undefined" >>

\* the texts of the arrivals that were OK and JSON objects, in order of arrival
RECURSIVE AppendedUpTo(_)
AppendedUpTo(k) ==
  IF k = 0 THEN << >>
  ELSE AppendedUpTo(k - 1) \o
       (IF arrivals[k].resp.kind = "json" THEN << AppendedText(k) >> ELSE << >>)

IsPrefix(a, b) == Len(a) <= Len(b) /\ SubSeq(b, 1, Len(a)) = a

\* C9: the results container is append-only: it is always the initial content
\* followed by what the responses that succeeded brought, in order of arrival,
\* and no step replaces or removes content that was there.
C9_ContainerAppendOnly ==
  /\ container = InitialContent \o AppendedUpTo(Len(arrivals))
  /\ IsPrefix(last.prevContainer, container)

\* C9 witness: two successful responses arrived and both fragments follow the
\* initial content.
C9_Witness ==
  /\ Len(arrivals) = 2
  /\ WellFormed(arrivals[1].resp)
  /\ WellFormed(arrivals[2].resp)
  /\ Len(container) = 3
  /\ container[1] = InitialContent[1]

\* C10: after a successful response the control is hidden when has_more is
\* false and is left as it was (never hidden by this response) when has_more
\* is true, whatever the page counter is.
C10_HasMoreDecidesControl ==
  last.op = "settle" /\ WellFormed(LastArrival.resp) =>
    /\ (LastArrival.resp.has_more = "false" => loadMoreBtn \in {"none", "absent"})
    /\ (LastArrival.resp.has_more = "true" => loadMoreBtn = last.prevBtn)

\* C10 witness: a visible control was hidden by a has_more:false response
\* after an earlier has_more:true response had left it visible.
C10_Witness ==
  /\ Len(arrivals) = 2
  /\ WellFormed(arrivals[1].resp)
  /\ arrivals[1].resp.has_more = "true"
  /\ last.op = "settle"
  /\ WellFormed(LastArrival.resp)
  /\ LastArrival.resp.has_more = "false"
  /\ last.prevBtn = ""
  /\ loadMoreBtn = "none"

\* C11: loadMore is accepted while fetches are outstanding: it advances the
\* page counter again and issues its own fetch for the new page, so several
\* fetches can be outstanding; the container holds the fragments in the
\* order their responses arrived, whatever their pages.
C11_NoInFlightGuard ==
  /\ (PageLive /\ Len(requests) < MaxLoads => ENABLED LoadMore)
  /\ (last.op = "loadMore" =>
        /\ currentPage = last.prevPage + 1
        /\ requests[last.req].page = currentPage
        /\ last.req \in Outstanding)
  /\ container = InitialContent \o AppendedUpTo(Len(arrivals))

\* C11 witness: two fetches were outstanding at once and the fragment of the
\* later page arrived, and was appended, before that of the earlier page.
C11_Witness ==
  /\ Len(requests) = 2
  /\ Len(arrivals) = 2
  /\ arrivals[1].req = 2
  /\ arrivals[2].req = 1
  /\ container = InitialContent \o
                   << Fragment(initialPage + 2), Fragment(initialPage + 1) >>

\* C22: the k-th loadMore requests the initial page plus k, one more than
\* the invocation before it, whether earlier fetches are outstanding, have
\* failed or have succeeded; no two fetches carry the same page number.
C22_PagesConsecutive ==
  /\ \A k \in 1..Len(requests) : requests[k].page = initialPage + k
  /\ \A k \in 2..Len(requests) : requests[k].page = requests[k - 1].page + 1
  /\ \A j, k \in 1..Len(requests) :
       j # k => requests[j].page # requests[k].page

\* C22 witness: the first fetch failed while the second, issued before the
\* first settled, was still outstanding; the two asked for consecutive pages.
C22_Witness ==
  /\ Len(requests) = 2
  /\ last.op = "settle"
  /\ last.req = 1
  /\ Failed(LastArrival.resp)
  /\ Outstanding = {2}
  /\ requests[1].page = initialPage + 1
  /\ requests[2].page = initialPage + 2

\* C20: however many subject changes rebuilt the number dropdown, at most one
\* live widget instance is bound to it and its change handler is registered
\* once: one number change is one handler run, hence one submission.
C20_OneWidgetOneListener ==
  /\ numberWidgets <= 1
  /\ numberListeners = 1
  /\ (last.op = "handleNumberChange" => Len(submissions) = last.prevSubmits + 1)

\* C20 witness: a second subject change in a row (CS, then MATH, on a page
\* loaded unfiltered) has rebuilt the dropdown again and one widget is live.
C20_Witness ==
  /\ last.op = "handleSubjectChange"
  /\ last.prevHidden = All
  /\ last.prevSubmits = 0
  /\ last.prevSubject = << "C", "S" >>
  /\ subjectValue = << "M", "A", "T", "H" >>
  /\ numberWidgets = 1

\* C19: the subjects and every subject's numbers, in content and in order,
\* are what they were when initializePage returned.
C19_IndexImmutable ==
  /\ SUBJECTS = loadedIndex.subjects
  /\ COURSES_DICT = loadedIndex.dict

\* C24: the hidden class value of the create modal is empty or is the
\* selected subject followed by the selected number.
C24_CreateHiddenCurrent ==
  \/ createHidden = EmptyStr
  \/ createHidden = createSubjectValue \o createNumberValue

(***************************************************************************)
(* Properties of the modal and the edit forms, checked under SpecModal.    *)
(***************************************************************************)
\* what closeModal leaves: overlay hidden, scroll restored, form at its defaults
ClosedClean ==
  /\ ~modalActive
  /\ bodyOverflow = ""
  /\ createForm = FormDefaults

ModalUntouched ==
  /\ modalActive = last.prevModal
  /\ bodyOverflow = last.prevOverflow
  /\ createForm = last.prevForm

\* C12: closeModal hides the overlay, restores page scroll and resets the
\* form, whatever was opened or edited before it.
C12_CloseResets == last.op = "closeModal" => ClosedClean

\* C12 witness: the modal was open with scroll suppressed and an edited form,
\* and closeModal left it hidden with the form at its defaults.
C12_Witness ==
  /\ last.op = "closeModal"
  /\ last.prevModal
  /\ last.prevOverflow = "hidden"
  /\ last.prevForm.text = "edited"
  /\ last.prevForm.option = "edited"
  /\ ClosedClean

\* C13: a click on the overlay element itself and an Escape key press while
\* the overlay is active do what closeModal does; a click on a child of the
\* overlay, an Escape while the overlay is not active and any other key leave
\* the overlay, the scroll lock and the form as they were.
C13_DismissalTriggers ==
  /\ (last.op = "click" =>
        IF last.arg = "modal" THEN ClosedClean ELSE ModalUntouched)
  /\ (last.op = "keydown" =>
        IF last.arg = "Escape" /\ last.prevModal THEN ClosedClean
        ELSE ModalUntouched)

\* C13 witness: a click on the content box left the open modal and its
\* edited form alone.
C13_Witness ==
  /\ last.op = "click"
  /\ last.arg = "content"
  /\ modalActive
  /\ bodyOverflow = "hidden"
  /\ createForm.text = "edited"

\* C14: toggleEdit(noteId) toggles the two classes of that note and leaves
\* the classes of every other note, the modal and the scroll lock unchanged.
C14_ToggleEditFrame ==
  last.op = "toggleEdit" =>
    /\ editActive[last.req] = ~last.prevEdit[last.req]
    /\ contentEditing[last.req] = ~last.prevEditing[last.req]
    /\ \A n \in NoteIds \ {last.req} :
         /\ editActive[n] = last.prevEdit[n]
         /\ contentEditing[n] = last.prevEditing[n]
    /\ modalActive = last.prevModal
    /\ bodyOverflow = last.prevOverflow

\* C14 witness: note 1 was toggled open while note 2 was open and the modal
\* active, and both stayed so.
C14_Witness ==
  /\ last.op = "toggleEdit"
  /\ last.req = 1
  /\ editActive[1]
  /\ editActive[2]
  /\ contentEditing[2]
  /\ modalActive
  /\ bodyOverflow = "hidden"

\* C23: page scroll is suppressed exactly when the create modal is active.
C23_ScrollLockIffActive == (bodyOverflow = "hidden") <=> modalActive

\* C23 witness: Escape closed the active modal while an edit form was open,
\* and scrolling is restored.
C23_Witness ==
  /\ last.op = "keydown"
  /\ last.arg = "Escape"
  /\ last.prevModal
  /\ last.prevOverflow = "hidden"
  /\ editActive[1]
  /\ ~modalActive
  /\ bodyOverflow = ""

(***************************************************************************)
(* Properties of the two dropdowns and of the course index.                *)
(***************************************************************************)
\* code matches ^[A-Z]+[0-9]+$, split after its k-th character
SplitsAt(code, k) ==
  /\ k \in 1..(Len(code) - 1)
  /\ \A i \in 1..k : IsUpper(code[i])
  /\ \A i \in (k + 1)..Len(code) : IsDigit(code[i])

MatchesPattern(code) == \E k \in 1..Len(code) : SplitsAt(code, k)
LetterPrefix(code) ==
  SubSeq(code, 1, CHOOSE k \in 1..Len(code) : SplitsAt(code, k))
DigitSuffix(code) ==
  SubSeq(code, 1 + (CHOOSE k \in 1..Len(code) : SplitsAt(code, k)), Len(code))

\* what parseClasses() returns for the page's list
Index == ParseClasses(CLASSES)

\* number is in the index's list for subject
Listed(subject, number) ==
  /\ subject \in DOMAIN Index.classesBySubject
  /\ number \in Range(Index.classesBySubject[subject])

\* C15: initializePage with a filter that matches the pattern, whose subject
\* is in the index and whose number is in that subject's list, leaves that
\* subject and that number selected; with "All" or a value that does not
\* match the pattern both dropdowns are on their sentinels.
C15_InitPreselects ==
  last.op = "initializePage" =>
    LET currentFilter == hiddenValue IN
      /\ ( /\ currentFilter # All
           /\ MatchesPattern(currentFilter)
           /\ Listed(LetterPrefix(currentFilter), DigitSuffix(currentFilter))
           => /\ subjectValue = LetterPrefix(currentFilter)
              /\ numberValue = DigitSuffix(currentFilter) )
      /\ ( currentFilter = All \/ ~MatchesPattern(currentFilter)
           => /\ subjectValue = EmptyStr
              /\ numberValue = EmptyStr )

\* C15 witness: the page initialised with the filter CS124 of its catalog has
\* CS and 124 selected.
C15_Witness ==
  /\ last.op = "initializePage"
  /\ hiddenValue = CS124
  /\ subjectValue = << "C", "S" >>
  /\ numberValue = << "1", "2", "4" >>
  /\ Len(numberOptions) > 2

\* how many times x occurs in seq
Count(seq, x) == Cardinality({ i \in 1..Len(seq) : seq[i] = x })

\* how many codes of the page's list match and split into subject and number
CodesFor(subject, number) ==
  Cardinality({ i \in 1..Len(CLASSES) :
                  /\ MatchesPattern(CLASSES[i])
                  /\ LetterPrefix(CLASSES[i]) = subject
                  /\ DigitSuffix(CLASSES[i]) = number })

\* C16: the number dropdown is one sentinel followed, when a subject is
\* selected, by one entry per number of the index's list for that subject and
\* nothing else, in ascending numeric order; with no subject selected it is
\* the sentinel alone.
C16_NumberDropdown ==
  LET numbers == Tail(numberOptions) IN
    /\ numberOptions[1] = EmptyStr
    /\ \A i \in 1..Len(numbers) : numbers[i] # EmptyStr
    /\ subjectValue = EmptyStr => numbers = << >>
    /\ subjectValue # EmptyStr =>
         /\ \A n \in Range(numbers) \cup Range(Index.classesBySubject[subjectValue]) :
              Count(numbers, n) = Count(Index.classesBySubject[subjectValue], n)
         /\ \A i, j \in 1..Len(numbers) :
              i < j => ParseInt(numbers[i]) <= ParseInt(numbers[j])

\* C16 witness: CS was selected on a page listing CS124, CS9, CS10 in that
\* order, and the dropdown shows 9, 10, 124.
C16_Witness ==
  /\ last.op = "handleSubjectChange"
  /\ CLASSES = << CS124, CS9, CS10 >>
  /\ subjectValue = << "C", "S" >>
  /\ numberOptions = << EmptyStr, << "9" >>, << "1", "0" >>, << "1", "2", "4" >> >>

\* C17: the subjects of the index, which the subject dropdown lists after its
\* sentinel, are strictly ascending in code-unit order (so without
\* duplicates) and are exactly the letter prefixes of the codes of the list
\* that match the pattern.
C17_SubjectsSortedUnique ==
  LET subjects == Index.subjects IN
    /\ subjectOptions = << EmptyStr >> \o subjects
    /\ \A i, j \in 1..Len(subjects) : i < j => StrLess(subjects[i], subjects[j])
    /\ \A i, j \in 1..Len(subjects) : i # j => subjects[i] # subjects[j]
    /\ Range(subjects) =
         { LetterPrefix(CLASSES[i]) :
             i \in { k \in 1..Len(CLASSES) : MatchesPattern(CLASSES[k]) } }

\* C17 witness: a list with MATH before CS and CS twice gives CS, MATH.
C17_Witness ==
  /\ CLASSES = << MATH241, CS124, CS9 >>
  /\ Index.subjects = << << "C", "S" >>, << "M", "A", "T", "H" >> >>
  /\ Len(subjectOptions) = 3

\* C18: a code that does not match the pattern adds no subject and no number
\* and is in no subject's list; each subject's list holds exactly one number
\* per matching code with that letter prefix, the code's digit suffix.
C18_NonMatchingExcluded ==
  LET bySubject == Index.classesBySubject IN
    /\ \A s \in DOMAIN bySubject \cup Range(Index.subjects) :
         \E i \in 1..Len(CLASSES) :
           MatchesPattern(CLASSES[i]) /\ LetterPrefix(CLASSES[i]) = s
    /\ \A i \in 1..Len(CLASSES) :
         IF MatchesPattern(CLASSES[i])
         THEN /\ LetterPrefix(CLASSES[i]) \in DOMAIN bySubject
              /\ DigitSuffix(CLASSES[i])
                   \in Range(bySubject[LetterPrefix(CLASSES[i])])
         ELSE \A s \in DOMAIN bySubject : CLASSES[i] \notin Range(bySubject[s])
    /\ \A s \in DOMAIN bySubject :
         \A n \in Range(bySubject[s]) : Count(bySubject[s], n) = CodesFor(s, n)
    /\ subjectValue # EmptyStr =>
         \A n \in Range(Tail(numberOptions)) : CodesFor(subjectValue, n) >= 1

\* C18 witness: the page initialised without error on a list holding cs50;
\* its dropdowns offer CS and MATH only and, for CS, 124 only.
C18_Witness ==
  /\ last.op = "handleSubjectChange"
  /\ CLASSES = << CS124, Lower50, MATH241 >>
  /\ subjectOptions = << EmptyStr, << "C", "S" >>, << "M", "A", "T", "H" >> >>
  /\ subjectValue = << "C", "S" >>
  /\ numberOptions = << EmptyStr, << "1", "2", "4" >> >>

\* value is "All" or a subject of the index followed by a number of that
\* subject's list
AllOrListed(value) ==
  \/ value = All
  \/ \E subject \in Range(Index.subjects) :
       \E number \in Range(Index.classesBySubject[subject]) :
         value = subject \o number

\* C21: every value the filter form was submitted with is "All" or a subject
\* of the index followed by a number of that subject's list; a submitted
\* value other than "All" is made of the subject and the number selected at
\* that moment, the number being one the dropdown lists for that subject.
C21_SubmittedValuesListed ==
  /\ \A k \in 1..Len(submissions) : AllOrListed(submissions[k])
  /\ (last.op # "initializePage" /\ Submitted /\ LastSubmission # All =>
        /\ LastSubmission = subjectValue \o numberValue
        /\ numberValue \in Range(Tail(numberOptions))
        /\ Listed(subjectValue, numberValue))

\* C21 witness: CS124 was submitted, the subject was then changed to MATH, and
\* the next number change submitted MATH241, a listed course.
C21_Witness ==
  /\ submissions = << CS124, MATH241 >>
  /\ last.op = "handleNumberChange"
  /\ subjectValue = << "M", "A", "T", "H" >>

=============================================================================
